---- MODULE Spec2Model ----
(***************************************************************************)
(* videelow: download a video with yt-dlp, re-encode it with ffmpeg and    *)
(* delete the raw download (mp4), or download the audio alone (mp3).       *)
(* The model follows src/src/main.rs: one run of main() is a process that  *)
(* steps through create_dir_all, the download, the existence check, the    *)
(* re-encoding and remove_file.  The external tools are black boxes: a     *)
(* command may fail to start, exit with or without success, and in either  *)
(* exit case may or may not have written its output path.                  *)
(***************************************************************************)
EXTENDS Integers, Sequences, FiniteSets, TLC

VARIABLES
    args,     \* args[r]: the parsed command line of run r (struct Args)
    pc,       \* pc[r]: the statement of main() run r is at (or returned from)
    result,   \* result[r]: the value main() returned, NoResult while running
    files,    \* the filesystem: path |-> who wrote the file last
    dirs,     \* the directories that exist
    calls,    \* calls[r]: the external commands run r has run, in order
    deleted,  \* deleted[r]: the paths run r has removed with remove_file
    atStart   \* atStart[r]: the paths that existed when run r started

vars == <<args, pc, result, files, dirs, calls, deleted, atStart>>

----------------------------------------------------------------------------
(* Bounds of the model *)

MaxRuns == 2
MaxNames == 3
MaxDirs == 2

Runs == 1..MaxRuns

AllNames == <<"clip", "../clip", "clip_complete", "video", "a/clip">>
AllDirs == <<"out", "Processed/new", "Processed">>

Names == {AllNames[i] : i \in 1..MaxNames}
OutputDirs == {AllDirs[i] : i \in 1..MaxDirs}
Urls == {"", "https://example/video"}

\* enum OutputFormat
OutputFormat == {"Mp3", "Mp4"}

\* struct Args
Args == [url : Urls, name : Names, output_dir : OutputDirs, format : OutputFormat]

\* The texts of the io::Error values the operating system hands back.
IoErrors == {"No such file or directory (os error 2)",
             "Permission denied (os error 13)"}

----------------------------------------------------------------------------
(* Strings and paths *)

HasSeparator(s) == \E i \in 1..Len(s) : SubSeq(s, i, i) = "/"

\* The directory itself and every parent component of it.
Ancestors(d) ==
    {d} \cup {SubSeq(d, 1, i - 1) : i \in {j \in 2..Len(d) : SubSeq(d, j, j) = "/"}}

\* path is a direct child of directory d
InDir(path, d) ==
    LET n == Len(d) + 1 IN
    /\ Len(path) > n
    /\ SubSeq(path, 1, n) = d \o "/"
    /\ ~HasSeparator(SubSeq(path, n + 1, Len(path)))

\* main.rs 125-128
processed_dir(a) == a.output_dir
\* Mutant of video_path: the raw download always goes to {dir}/video.mp4.
video_pathSharedName(a) == processed_dir(a) \o "/" \o "video" \o ".mp4"

video_path(a) == processed_dir(a) \o "/" \o a.name \o ".mp4"
\* Mutant of compatible_mp4_path: another suffix.
compatible_mp4_pathWrongSuffix(a) == processed_dir(a) \o "/" \o a.name \o "_compatible.mp4"

compatible_mp4_path(a) == processed_dir(a) \o "/" \o a.name \o "_complete.mp4"
mp3_path(a) == processed_dir(a) \o "/" \o a.name \o ".mp3"

ArtifactPaths(a) == {video_path(a), compatible_mp4_path(a), mp3_path(a)}

----------------------------------------------------------------------------
(* Results *)

\* enum VideoConversionError, and Ok(())
Ok == [tag |-> "Ok", msg |-> ""]
CommandError(s) == [tag |-> "CommandError", msg |-> s]
FileNotFound(s) == [tag |-> "FileNotFound", msg |-> s]
NoResult == [tag |-> "None", msg |-> ""]

IsErr(v) == v.tag \in {"CommandError", "FileNotFound"}

\* What Command::status() can give: an io::Error when the program could not
\* be started, otherwise the exit status of the program.
Statuses ==
    {[err |-> "", success |-> b] : b \in BOOLEAN}
        \cup {[err |-> e, success |-> FALSE] : e \in IoErrors}

\* Mutant of run_command: the exit status is not looked at.
run_commandIgnoringExit(st) ==
    IF st.err # "" THEN CommandError(st.err) ELSE Ok

\* fn run_command
run_command(st) ==
    IF st.err # "" THEN CommandError(st.err)
    ELSE IF st.success THEN Ok
    ELSE CommandError("Command failed")

----------------------------------------------------------------------------
(* Filesystem *)

PreExisting == [by |-> 0, op |-> "pre"]

\* Path::new(p).exists()
PathExists(p) == p \in DOMAIN files

Written(p, r, op) == [q \in DOMAIN files \cup {p} |->
                         IF q = p THEN [by |-> r, op |-> op] ELSE files[q]]

Removed(p) == [q \in DOMAIN files \ {p} |-> files[q]]

----------------------------------------------------------------------------
(* One run of an external command by a stage function, and main's `?` on   *)
(* its result: Ok moves main on to `next`, Err makes main return it.       *)

Call(op, prog, url, input, output, st, ret, wrote) ==
    [op |-> op, prog |-> prog, url |-> url, input |-> input,
     output |-> output, st |-> st, ret |-> ret, wrote |-> wrote]

\* Mutant of Propagate: the stage's result is dropped (`let _ = ..`), main
\* goes on whatever the stage returned.
PropagateIgnoringErr(r, ret, next) ==
    /\ pc' = [pc EXCEPT ![r] = next]
    /\ result' = [result EXCEPT ![r] = IF next = "return" THEN Ok ELSE @]

\* Mutant of Propagate: a failed stage is tried again.
PropagateRetrying(r, ret, next) ==
    IF ret = Ok
    THEN /\ pc' = [pc EXCEPT ![r] = next]
         /\ result' = [result EXCEPT ![r] = IF next = "return" THEN Ok ELSE @]
    ELSE UNCHANGED <<pc, result>>

\* The `?` of main on a stage's result: Ok moves main on to `next` (the end
\* of main, line 154, returns Ok(())), Err makes main return the error.
Propagate(r, ret, next) ==
    IF ret = Ok
    THEN /\ pc' = [pc EXCEPT ![r] = next]
         /\ result' = [result EXCEPT ![r] = IF next = "return" THEN Ok ELSE @]
    ELSE /\ pc' = pc
         /\ result' = [result EXCEPT ![r] = ret]

\* run_command(Command::new(prog) .. .arg(output)) inside a stage function
Stage(r, op, prog, url, input, output, next) ==
    \E st \in Statuses, untouched \in BOOLEAN :
        LET ret == run_command(st)
            wrote == ~untouched    \* the command wrote its output path
        IN
        /\ st.err # "" => ~wrote
        /\ calls' = [calls EXCEPT ![r] =
                        Append(@, Call(op, prog, url, input, output, st, ret, wrote))]
        /\ files' = IF wrote THEN Written(output, r, op) ELSE files
        /\ Propagate(r, ret, next)
        /\ UNCHANGED <<args, dirs, deleted, atStart>>

\* fn download_youtube_video
download_youtube_video(r, url, output_path, next) ==
    Stage(r, "DownloadVideo", "yt-dlp", url, "", output_path, next)

\* fn download_youtube_audio
download_youtube_audio(r, url, output_path, next) ==
    Stage(r, "DownloadAudio", "yt-dlp", url, "", output_path, next)

\* fn convert_to_quicktime_compatible_mp4
convert_to_quicktime_compatible_mp4(r, input_path, output_path, next) ==
    Stage(r, "NormalizeVideo", "ffmpeg", "", input_path, output_path, next)

----------------------------------------------------------------------------
(* main() *)

\* Mutant of Running: main goes on after a statement returned an error.
RunningAfterErr(r) == pc[r] # "idle" /\ result[r] # Ok

Running(r) == pc[r] # "idle" /\ result[r] = NoResult

\* Mutant of CreateDir: a failure of create_dir_all is ignored.
CreateDirIgnoresFailure(r) ==
    /\ Running(r) /\ pc[r] = "create_dir"
    /\ \/ dirs' = dirs \cup Ancestors(processed_dir(args[r]))
       \/ dirs' = dirs
    /\ pc' = [pc EXCEPT ![r] = "download"]
    /\ UNCHANGED <<args, result, files, calls, deleted, atStart>>

\* main.rs 131: create_dir_all(processed_dir).map_err(..)?
CreateDir(r) ==
    /\ Running(r) /\ pc[r] = "create_dir"
    /\ \/ /\ dirs' = dirs \cup Ancestors(processed_dir(args[r]))
          /\ pc' = [pc EXCEPT ![r] = "download"]
          /\ UNCHANGED result
       \/ /\ \E e \in IoErrors :
                result' = [result EXCEPT ![r] = CommandError(e)]
          /\ UNCHANGED <<dirs, pc>>
    /\ UNCHANGED <<args, files, calls, deleted, atStart>>

\* main.rs 136: download_youtube_video(&args.url, &video_path)?
DownloadVideo(r) ==
    /\ Running(r) /\ pc[r] = "download" /\ args[r].format = "Mp4"
    /\ download_youtube_video(r, args[r].url, video_path(args[r]), "exists")

\* Mutant of DownloadAudio: the mp3 branch downloads the video to video_path.
DownloadAudioAsVideo(r) ==
    /\ Running(r) /\ pc[r] = "download" /\ args[r].format = "Mp3"
    /\ download_youtube_video(r, args[r].url, video_path(args[r]), "return")

\* Mutant of DownloadAudio: the mp3 branch checks, as the mp4 branch does,
\* that the download left its file.
DownloadAudioChecked(r) ==
    /\ Running(r) /\ pc[r] = "download" /\ args[r].format = "Mp3"
    /\ \E st \in Statuses, untouched \in BOOLEAN :
          LET ret == run_command(st)
              wrote == ~untouched
              output == mp3_path(args[r])
          IN
          /\ st.err # "" => ~wrote
          /\ calls' = [calls EXCEPT ![r] =
                          Append(@, Call("DownloadAudio", "yt-dlp", args[r].url, "",
                                         output, st, ret, wrote))]
          /\ files' = IF wrote THEN Written(output, r, "DownloadAudio") ELSE files
          /\ IF ret # Ok
             THEN result' = [result EXCEPT ![r] = ret] /\ UNCHANGED pc
             ELSE IF wrote \/ PathExists(output)
             THEN /\ pc' = [pc EXCEPT ![r] = "return"]
                  /\ result' = [result EXCEPT ![r] = Ok]
             ELSE /\ result' = [result EXCEPT ![r] = FileNotFound(output)]
                  /\ UNCHANGED pc
          /\ UNCHANGED <<args, dirs, deleted, atStart>>

\* main.rs 150: download_youtube_audio(&args.url, &mp3_path)?  then Ok(())
DownloadAudio(r) ==
    /\ Running(r) /\ pc[r] = "download" /\ args[r].format = "Mp3"
    /\ download_youtube_audio(r, args[r].url, mp3_path(args[r]), "return")

\* Mutant of ExistsCheck: main goes on to the re-encoding without the check.
ExistsCheckSkipped(r) ==
    /\ Running(r) /\ pc[r] = "exists"
    /\ pc' = [pc EXCEPT ![r] = "convert"]
    /\ UNCHANGED <<args, result, files, dirs, calls, deleted, atStart>>

\* Mutant of ExistsCheck: only a file this run's download wrote passes.
ExistsCheckFreshOnly(r) ==
    /\ Running(r) /\ pc[r] = "exists"
    /\ IF PathExists(video_path(args[r])) /\ files[video_path(args[r])].by = r
       THEN /\ pc' = [pc EXCEPT ![r] = "convert"]
            /\ UNCHANGED result
       ELSE /\ result' = [result EXCEPT ![r] = FileNotFound(video_path(args[r]))]
            /\ UNCHANGED pc
    /\ UNCHANGED <<args, files, dirs, calls, deleted, atStart>>

\* main.rs 138, 144-146: if Path::new(&video_path).exists() .. else Err(FileNotFound)
ExistsCheck(r) ==
    /\ Running(r) /\ pc[r] = "exists"
    /\ IF PathExists(video_path(args[r]))
       THEN /\ pc' = [pc EXCEPT ![r] = "convert"]
            /\ UNCHANGED result
       ELSE /\ result' = [result EXCEPT ![r] = FileNotFound(video_path(args[r]))]
            /\ UNCHANGED pc
    /\ UNCHANGED <<args, files, dirs, calls, deleted, atStart>>

\* Mutant of Convert: input and output paths swapped.
ConvertSwapped(r) ==
    /\ Running(r) /\ pc[r] = "convert"
    /\ convert_to_quicktime_compatible_mp4(
           r, compatible_mp4_path(args[r]), video_path(args[r]), "remove")

\* Mutant of Convert: the raw download is removed when the re-encoding fails.
ConvertCleaningUp(r) ==
    /\ Running(r) /\ pc[r] = "convert"
    /\ \E st \in Statuses, wrote \in BOOLEAN :
          LET ret == run_command(st)
              out == IF wrote
                     THEN Written(compatible_mp4_path(args[r]), r, "NormalizeVideo")
                     ELSE files
          IN
          /\ st.err # "" => ~wrote
          /\ calls' = [calls EXCEPT ![r] =
                          Append(@, Call("NormalizeVideo", "ffmpeg", "", video_path(args[r]),
                                         compatible_mp4_path(args[r]), st, ret, wrote))]
          /\ files' = IF ret = Ok THEN out
                      ELSE [q \in DOMAIN out \ {video_path(args[r])} |-> out[q]]
          /\ Propagate(r, ret, "remove")
          /\ UNCHANGED <<args, dirs, deleted, atStart>>

\* main.rs 139: convert_to_quicktime_compatible_mp4(&video_path, &compatible_mp4_path)?
Convert(r) ==
    /\ Running(r) /\ pc[r] = "convert"
    /\ convert_to_quicktime_compatible_mp4(
           r, video_path(args[r]), compatible_mp4_path(args[r]), "remove")

\* Mutant of Remove: the result of remove_file is ignored.
RemoveIgnoresFailure(r) ==
    /\ Running(r) /\ pc[r] = "remove"
    /\ \/ /\ PathExists(video_path(args[r]))
          /\ files' = Removed(video_path(args[r]))
          /\ deleted' = [deleted EXCEPT ![r] = @ \cup {video_path(args[r])}]
       \/ UNCHANGED <<files, deleted>>
    /\ pc' = [pc EXCEPT ![r] = "return"]
    /\ result' = [result EXCEPT ![r] = Ok]
    /\ UNCHANGED <<args, dirs, calls, atStart>>

\* Mutant of Remove: no deletion at all, main returns Ok(()).
RemoveSkipped(r) ==
    /\ Running(r) /\ pc[r] = "remove"
    /\ pc' = [pc EXCEPT ![r] = "return"]
    /\ result' = [result EXCEPT ![r] = Ok]
    /\ UNCHANGED <<args, files, dirs, calls, deleted, atStart>>

\* Mutant of Remove: the re-encoded file is removed instead of the raw one.
RemoveWrongFile(r) ==
    /\ Running(r) /\ pc[r] = "remove"
    /\ \/ /\ PathExists(compatible_mp4_path(args[r]))
          /\ files' = Removed(compatible_mp4_path(args[r]))
          /\ deleted' = [deleted EXCEPT ![r] = @ \cup {compatible_mp4_path(args[r])}]
          /\ pc' = [pc EXCEPT ![r] = "return"]
          /\ result' = [result EXCEPT ![r] = Ok]
       \/ /\ \E e \in IoErrors :
                result' = [result EXCEPT ![r] =
                              CommandError("Failed to delete file: " \o e)]
          /\ UNCHANGED <<files, deleted, pc>>
    /\ UNCHANGED <<args, dirs, calls, atStart>>

\* main.rs 142-143, 154: remove_file(&video_path).map_err(..)?  then Ok(())
Remove(r) ==
    /\ Running(r) /\ pc[r] = "remove"
    /\ \/ /\ PathExists(video_path(args[r]))
          /\ files' = Removed(video_path(args[r]))
          /\ deleted' = [deleted EXCEPT ![r] = @ \cup {video_path(args[r])}]
          /\ pc' = [pc EXCEPT ![r] = "return"]
          /\ result' = [result EXCEPT ![r] = Ok]
       \/ /\ \E e \in IoErrors :
                /\ ~PathExists(video_path(args[r])) => e = "No such file or directory (os error 2)"
                /\ PathExists(video_path(args[r])) => e = "Permission denied (os error 13)"
                /\ result' = [result EXCEPT ![r] =
                                 CommandError("Failed to delete file: " \o e)]
          /\ UNCHANGED <<files, deleted, pc>>
    /\ UNCHANGED <<args, dirs, calls, atStart>>

Step(r) ==
    \/ CreateDir(r)
    \/ DownloadVideo(r)
    \/ DownloadAudio(r)
    \/ ExistsCheck(r)
    \/ Convert(r)
    \/ Remove(r)

Next == \E r \in Runs : Step(r)

----------------------------------------------------------------------------
(* One run of the program, on a filesystem that may already hold any of    *)
(* the run's artifact paths (left by earlier runs).                        *)

DefaultArgs == [url |-> "https://example/video", name |-> AllNames[1],
                output_dir |-> AllDirs[1], format |-> "Mp4"]

Init ==
    /\ \E a \in Args :
          /\ args = [r \in Runs |-> IF r = 1 THEN a ELSE DefaultArgs]
          /\ \E old \in SUBSET ArtifactPaths(a) :
                /\ files = [p \in old |-> PreExisting]
                /\ atStart = [r \in Runs |-> IF r = 1 THEN old ELSE {}]
                /\ \/ dirs = Ancestors(processed_dir(a))
                   \/ old = {} /\ dirs = {}
    /\ pc = [r \in Runs |-> IF r = 1 THEN "create_dir" ELSE "idle"]
    /\ result = [r \in Runs |-> NoResult]
    /\ calls = [r \in Runs |-> << >>]
    /\ deleted = [r \in Runs |-> {}]

Spec == Init /\ [][Next]_vars

----------------------------------------------------------------------------
(* Vocabulary of the properties *)

Started(r) == pc[r] # "idle"
Ended(r) == result[r] # NoResult
Completed(r) == result[r] = Ok
Aborted(r) == IsErr(result[r])
VideoOnly(r) == Started(r) /\ args[r].format = "Mp4"
AudioOnly(r) == Started(r) /\ args[r].format = "Mp3"

\* The naming convention of the artifacts, {dir}/{name}{suffix}.{ext}
IntermediateOf(r) == args[r].output_dir \o "/" \o args[r].name \o ".mp4"
FinalVideoOf(r) == args[r].output_dir \o "/" \o args[r].name \o "_complete.mp4"
FinalAudioOf(r) == args[r].output_dir \o "/" \o args[r].name \o ".mp3"

OnDisk(p) == p \in DOMAIN files

CallsOf(r, op) == {i \in 1..Len(calls[r]) : calls[r][i].op = op}
ReportedSuccess(r, op) == \E i \in CallsOf(r, op) : calls[r][i].ret = Ok
ReportedFailure(r, op) == \E i \in CallsOf(r, op) : calls[r][i].ret # Ok
WroteOutput(r, op) == \E i \in CallsOf(r, op) : calls[r][i].wrote

BothStagesSucceeded(r) ==
    /\ VideoOnly(r) /\ Ended(r)
    /\ ReportedSuccess(r, "DownloadVideo")
    /\ ReportedSuccess(r, "NormalizeVideo")

----------------------------------------------------------------------------
(* C1 *)

\* C1 as stated: in every VideoOnly run in which DownloadVideo and
\* NormalizeVideo both reported success, when the run has ended
\* {dir}/{name}.mp4 does not exist and {dir}/{name}_complete.mp4 exists.
C1_AsStated ==
    \A r \in Runs :
        BothStagesSucceeded(r) =>
            ~OnDisk(IntermediateOf(r)) /\ OnDisk(FinalVideoOf(r))

\* C1 amended: in every VideoOnly run in which DownloadVideo and
\* NormalizeVideo both reported success, when the run has ended the
\* intermediate {dir}/{name}.mp4 is gone exactly when the deletion succeeded
\* (the run ended Completed; otherwise it ended Aborted by the failed
\* deletion and the intermediate is still there), and the final file
\* {dir}/{name}_complete.mp4 exists exactly when NormalizeVideo wrote it or
\* it was there before the run.
C1_CleanedWhenCompleted ==
    \A r \in Runs :
        BothStagesSucceeded(r) =>
            /\ Completed(r) <=> ~OnDisk(IntermediateOf(r))
            /\ Aborted(r) <=> OnDisk(IntermediateOf(r))
            /\ OnDisk(FinalVideoOf(r)) <=>
                  (WroteOutput(r, "NormalizeVideo") \/ FinalVideoOf(r) \in atStart[r])

C1_Witness ==
    \E r \in Runs :
        /\ BothStagesSucceeded(r) /\ Completed(r)
        /\ WroteOutput(r, "NormalizeVideo")
        /\ ~OnDisk(IntermediateOf(r)) /\ OnDisk(FinalVideoOf(r))

----------------------------------------------------------------------------
(* C2 *)

\* The step of run r from the existence check with the intermediate missing.
MissingAtCheck(r) ==
    /\ VideoOnly(r) /\ Running(r) /\ pc[r] = "exists"
    /\ ReportedSuccess(r, "DownloadVideo")
    /\ ~OnDisk(IntermediateOf(r))

\* C2: in a VideoOnly run, when DownloadVideo reported success and
\* {dir}/{name}.mp4 does not exist at the check that follows, the run ends
\* Aborted with FileNotFound (MissingArtifact) naming that path; and a run
\* that ended so has never invoked NormalizeVideo nor deleted a file.
C2_MissingArtifactAborts ==
    /\ [][\A r \in Runs :
            MissingAtCheck(r) /\ <<pc[r], result[r]>>' # <<pc[r], result[r]>> =>
                /\ result'[r] = FileNotFound(IntermediateOf(r))
                /\ calls'[r] = calls[r]
                /\ deleted'[r] = {} /\ files' = files]_vars
    /\ [](\A r \in Runs :
            result[r].tag = "FileNotFound" =>
                /\ VideoOnly(r)
                /\ CallsOf(r, "NormalizeVideo") = {}
                /\ Len(calls[r]) = 1 /\ ReportedSuccess(r, "DownloadVideo")
                /\ deleted[r] = {}
                /\ ~OnDisk(IntermediateOf(r)))

C2_Witness ==
    \E r \in Runs :
        /\ result[r] = FileNotFound(IntermediateOf(r))
        /\ ReportedSuccess(r, "DownloadVideo")
        /\ ~OnDisk(IntermediateOf(r))

----------------------------------------------------------------------------
(* C3 *)

\* A VideoOnly run that started with neither mp4 present, whose DownloadVideo
\* succeeded and created {name}.mp4, and whose NormalizeVideo reported failure.
NormalizeFailedAfterDownload(r) ==
    /\ VideoOnly(r)
    /\ IntermediateOf(r) \notin atStart[r] /\ FinalVideoOf(r) \notin atStart[r]
    /\ ReportedSuccess(r, "DownloadVideo") /\ WroteOutput(r, "DownloadVideo")
    /\ ReportedFailure(r, "NormalizeVideo")

\* C3 as stated: such a run ends Aborted at the Transcoding stage,
\* {name}.mp4 is still present and {name}_complete.mp4 is absent.
C3_AsStated ==
    \A r \in Runs :
        NormalizeFailedAfterDownload(r) =>
            /\ Aborted(r) /\ pc[r] = "convert"
            /\ OnDisk(IntermediateOf(r))
            /\ ~OnDisk(FinalVideoOf(r))

\* C3 amended: such a run ends Aborted at the Transcoding stage with the
\* error NormalizeVideo returned, {name}.mp4 is still present and nothing was
\* deleted; {name}_complete.mp4 is absent unless the failed NormalizeVideo
\* itself left it behind (the pipeline cleans up neither file).
C3_NoCleanupOnFailure ==
    \A r \in Runs :
        NormalizeFailedAfterDownload(r) =>
            /\ Aborted(r) /\ pc[r] = "convert"
            /\ result[r] = calls[r][Len(calls[r])].ret
            /\ OnDisk(IntermediateOf(r))
            /\ deleted[r] = {}
            /\ OnDisk(FinalVideoOf(r)) <=> WroteOutput(r, "NormalizeVideo")

C3_Witness ==
    \E r \in Runs :
        /\ NormalizeFailedAfterDownload(r)
        /\ Aborted(r) /\ pc[r] = "convert"
        /\ OnDisk(IntermediateOf(r)) /\ ~OnDisk(FinalVideoOf(r))

----------------------------------------------------------------------------
(* C4 *)

\* C4: in every run, once a stage (DownloadVideo, DownloadAudio or
\* NormalizeVideo) has reported a failure the run is Aborted with that
\* failure: the failed call is the last one the run makes, the run has
\* deleted no file, and the run is never Completed.
C4_FailureAbortsAtOnce ==
    \A r \in Runs : \A i \in 1..Len(calls[r]) :
        calls[r][i].ret # Ok =>
            /\ i = Len(calls[r])
            /\ Aborted(r) /\ result[r] = calls[r][i].ret
            /\ deleted[r] = {}
            /\ ~Completed(r)

C4_Witness ==
    \E r \in Runs :
        /\ Len(calls[r]) = 2
        /\ calls[r][1].ret = Ok /\ calls[r][2].ret # Ok
        /\ Aborted(r)

----------------------------------------------------------------------------
(* C5 *)

\* C5: a run is Completed only if every stage its format requires reported
\* success: for VideoOnly, DownloadVideo then NormalizeVideo, with
\* {name}.mp4 there to pass the existence check (written by the download or
\* present before) and then deleted by the run; for AudioOnly, DownloadAudio
\* alone.
C5_CompletedOnlyAfterAllStages ==
    \A r \in Runs :
        Completed(r) =>
            /\ pc[r] = "return"
            /\ \A i \in 1..Len(calls[r]) : calls[r][i].ret = Ok
            /\ VideoOnly(r) =>
                  /\ [i \in 1..Len(calls[r]) |-> calls[r][i].op]
                        = <<"DownloadVideo", "NormalizeVideo">>
                  /\ calls[r][1].wrote \/ IntermediateOf(r) \in atStart[r]
                  /\ deleted[r] = {IntermediateOf(r)}
                  /\ ~OnDisk(IntermediateOf(r))
            /\ AudioOnly(r) =>
                  /\ [i \in 1..Len(calls[r]) |-> calls[r][i].op] = <<"DownloadAudio">>
                  /\ deleted[r] = {}

C5_Witness ==
    \E r \in Runs :
        /\ Completed(r) /\ VideoOnly(r)
        /\ Len(calls[r]) = 2 /\ deleted[r] = {IntermediateOf(r)}

----------------------------------------------------------------------------
(* C6 *)

\* C6: in an AudioOnly run the only stage invoked is DownloadAudio, once
\* the download step is passed and with output {dir}/{name}.mp3; the run
\* deletes no file, and no other path than that one is written or removed:
\* every other file on disk was there before the run, untouched.
C6_AudioOnlyRunsDownloadAudioAlone ==
    \A r \in Runs :
        AudioOnly(r) =>
            /\ \A i \in 1..Len(calls[r]) :
                  /\ calls[r][i].op = "DownloadAudio"
                  /\ calls[r][i].prog = "yt-dlp"
                  /\ calls[r][i].output = FinalAudioOf(r)
                  /\ calls[r][i].url = args[r].url
            /\ Len(calls[r]) = IF pc[r] = "create_dir" \/ Running(r) THEN 0 ELSE 1
            /\ deleted[r] = {}
            /\ \A p \in (DOMAIN files \cup atStart[r]) \ {FinalAudioOf(r)} :
                  p \in atStart[r] /\ OnDisk(p) /\ files[p] = PreExisting

C6_Witness ==
    \E r \in Runs :
        /\ AudioOnly(r) /\ Completed(r)
        /\ Len(calls[r]) = 1 /\ calls[r][1].wrote
        /\ OnDisk(FinalAudioOf(r))

----------------------------------------------------------------------------
(* C7 *)

DeleteFailedPrefix == "Failed to delete file: "

\* C7: in a VideoOnly run where NormalizeVideo succeeded, a run that
\* returned from the deletion step with {name}.mp4 still on disk returned
\* the deletion error (CommandError "Failed to delete file: ..."), not
\* success; a Completed VideoOnly run never has {name}.mp4 on disk.
C7_CleanupFailureAborts ==
    \A r \in Runs :
        /\ (VideoOnly(r) /\ Ended(r) /\ ReportedSuccess(r, "NormalizeVideo")
               /\ OnDisk(IntermediateOf(r))) =>
              /\ pc[r] = "remove"
              /\ result[r].tag = "CommandError"
              /\ Len(result[r].msg) > Len(DeleteFailedPrefix)
              /\ SubSeq(result[r].msg, 1, Len(DeleteFailedPrefix)) = DeleteFailedPrefix
              /\ deleted[r] = {}
        /\ (VideoOnly(r) /\ Completed(r)) => ~OnDisk(IntermediateOf(r))

C7_Witness ==
    \E r \in Runs :
        /\ VideoOnly(r) /\ ReportedSuccess(r, "NormalizeVideo")
        /\ pc[r] = "remove" /\ Aborted(r)
        /\ OnDisk(IntermediateOf(r))

----------------------------------------------------------------------------
(* C8 *)

\* C8: the only path a run deletes is its Intermediate {dir}/{name}.mp4,
\* and only after NormalizeVideo, given that path as input, has reported
\* success; the Final paths {name}_complete.mp4 and {name}.mp3 are never
\* deleted: one that was on disk before the run, or was written by it, is
\* on disk.
C8_OnlyIntermediateDeleted ==
    \A r \in Runs :
        Started(r) =>
            /\ deleted[r] \subseteq {IntermediateOf(r)}
            /\ deleted[r] # {} =>
                  \E i \in CallsOf(r, "NormalizeVideo") :
                      calls[r][i].ret = Ok /\ calls[r][i].input = IntermediateOf(r)
            /\ \A p \in {FinalVideoOf(r), FinalAudioOf(r)} :
                  /\ p \notin deleted[r]
                  /\ (p \in atStart[r] \/ \E i \in 1..Len(calls[r]) :
                          calls[r][i].output = p /\ calls[r][i].wrote) => OnDisk(p)

C8_Witness ==
    \E r \in Runs :
        /\ deleted[r] = {IntermediateOf(r)}
        /\ FinalAudioOf(r) \in atStart[r] /\ OnDisk(FinalAudioOf(r))
        /\ OnDisk(FinalVideoOf(r))

----------------------------------------------------------------------------
(* C9 *)

\* C9: whenever a run has invoked an external command, or is past the
\* directory creation, the output directory and its parents exist; and a
\* run whose directory creation failed is Aborted with no external command
\* invoked and no file written or deleted.
C9_DirectoryBeforeStages ==
    \A r \in Runs :
        Started(r) =>
            /\ (calls[r] # << >> \/ pc[r] # "create_dir") =>
                  /\ args[r].output_dir \in dirs
                  /\ Ancestors(args[r].output_dir) \subseteq dirs
            /\ (pc[r] = "create_dir" /\ Ended(r)) =>
                  /\ Aborted(r)
                  /\ calls[r] = << >> /\ deleted[r] = {}
                  /\ DOMAIN files = atStart[r]

C9_Witness ==
    \E r \in Runs :
        /\ pc[r] = "create_dir" /\ Aborted(r)
        /\ args[r].output_dir \notin dirs
        /\ calls[r] = << >>

----------------------------------------------------------------------------
(* C10 *)

InvalidRequest(r) == HasSeparator(args[r].name) \/ args[r].url = ""

\* C10: a request whose baseName contains a path separator, or whose
\* sourceUrl is empty, is rejected at planning time: no stage is ever
\* invoked by the run, so every path handed to a stage lies directly in
\* outputDirectory.
C10_InvalidRequestRejected ==
    \A r \in Runs :
        Started(r) =>
            /\ InvalidRequest(r) => calls[r] = << >>
            /\ \A i \in 1..Len(calls[r]) :
                  InDir(calls[r][i].output, args[r].output_dir)

----------------------------------------------------------------------------
(* The program run again: once run r - 1 has returned, the same command    *)
(* line is started once more, on the filesystem the earlier run left.      *)

Rerun(r) ==
    /\ r - 1 \in Runs /\ Ended(r - 1)
    /\ pc[r] = "idle"
    /\ args' = [args EXCEPT ![r] = args[r - 1]]
    /\ pc' = [pc EXCEPT ![r] = "create_dir"]
    /\ atStart' = [atStart EXCEPT ![r] = DOMAIN files]
    /\ UNCHANGED <<result, files, dirs, calls, deleted>>

NextTwice ==
    \/ \E r \in Runs : Step(r)
    \/ \E r \in Runs : Rerun(r)

SpecTwice == Init /\ [][NextTwice]_vars

----------------------------------------------------------------------------
(* C11 *)

Mp4PathsOf(r) == {IntermediateOf(r), FinalVideoOf(r)}

\* Run r and the run before it are two VideoOnly runs of the same request,
\* both ended, in which every stage reported success; nothing has run since.
RanTwiceAllStagesOk(r) ==
    /\ r - 1 \in Runs /\ Started(r) /\ args[r] = args[r - 1]
    /\ \A q \in Runs : q > r => pc[q] = "idle"
    /\ BothStagesSucceeded(r - 1) /\ BothStagesSucceeded(r)

\* C11 as stated: the same VideoOnly request run twice in sequence with all
\* stages succeeding succeeds both times, and the mp4 artifacts after the
\* second run are those after the first: exactly {name}_complete.mp4.
C11_AsStated ==
    \A r \in Runs :
        RanTwiceAllStagesOk(r) =>
            /\ Completed(r - 1) /\ Completed(r)
            /\ atStart[r] \cap Mp4PathsOf(r) = {FinalVideoOf(r)}
            /\ DOMAIN files \cap Mp4PathsOf(r) = {FinalVideoOf(r)}

\* C11 amended: of two such runs each is Completed exactly when its deletion
\* of {name}.mp4 succeeded; and when both deletions succeeded and both
\* NormalizeVideo calls wrote their output, the mp4 artifacts after the
\* second run are those after the first, exactly {name}_complete.mp4, the
\* file now being the one the second run wrote: the pipeline itself makes no
\* check for a final file left by the first run.
C11_RerunLeavesSameArtifacts ==
    \A r \in Runs :
        RanTwiceAllStagesOk(r) =>
            /\ \A q \in {r - 1, r} :
                  /\ Completed(q) <=> deleted[q] = {IntermediateOf(q)}
                  /\ Aborted(q) <=> deleted[q] = {}
            /\ (/\ Completed(r - 1) /\ Completed(r)
                /\ WroteOutput(r - 1, "NormalizeVideo")
                /\ WroteOutput(r, "NormalizeVideo")) =>
                  /\ atStart[r] \cap Mp4PathsOf(r) = {FinalVideoOf(r)}
                  /\ DOMAIN files \cap Mp4PathsOf(r) = {FinalVideoOf(r)}
                  /\ files[FinalVideoOf(r)] = [by |-> r, op |-> "NormalizeVideo"]

C11_Witness ==
    \E r \in Runs :
        /\ RanTwiceAllStagesOk(r)
        /\ Completed(r - 1) /\ Completed(r)
        /\ FinalVideoOf(r) \in atStart[r]
        /\ files[FinalVideoOf(r)] = [by |-> r, op |-> "NormalizeVideo"]
        /\ ~OnDisk(IntermediateOf(r))

----------------------------------------------------------------------------
(* Two runs of the program at once (two processes of a host application),  *)
(* their steps interleaved in any order, on one filesystem that holds none, *)
(* one or all of their artifact paths already.                             *)

ConcurrentRuns == {1, 2}

InitConc ==
    /\ \E a, b \in {x \in Args : x.url # ""} :
          /\ args = [r \in Runs |-> IF r = 1 THEN a ELSE IF r = 2 THEN b ELSE DefaultArgs]
          /\ \E old \in {{}, ArtifactPaths(a) \cup ArtifactPaths(b)}
                          \cup {{p} : p \in ArtifactPaths(a) \cup ArtifactPaths(b)} :
                /\ files = [p \in old |-> PreExisting]
                /\ atStart = [r \in Runs |-> IF r \in ConcurrentRuns THEN old ELSE {}]
                /\ \/ dirs = Ancestors(processed_dir(a)) \cup Ancestors(processed_dir(b))
                   \/ old = {} /\ dirs = {}
    /\ pc = [r \in Runs |-> IF r \in ConcurrentRuns THEN "create_dir" ELSE "idle"]
    /\ result = [r \in Runs |-> NoResult]
    /\ calls = [r \in Runs |-> << >>]
    /\ deleted = [r \in Runs |-> {}]

SpecConc == InitConc /\ [][Next]_vars

----------------------------------------------------------------------------
(* C12 *)

\* The artifacts of a run: the raw and the normalized video of a VideoOnly
\* run, the audio of an AudioOnly run.
ArtifactsOf(r) ==
    IF args[r].format = "Mp4" THEN {IntermediateOf(r), FinalVideoOf(r)}
    ELSE {FinalAudioOf(r)}

Others(r) == {q \in Runs \ {r} : Started(q)}

\* The artifacts run r would have on disk had it run alone with the same
\* outcomes of its commands: those there at its start and those its
\* commands wrote, less those it deleted.
OwnArtifacts(r) ==
    ((atStart[r] \cap ArtifactsOf(r))
        \cup {calls[r][i].output : i \in {j \in 1..Len(calls[r]) : calls[r][j].wrote}})
      \ deleted[r]

\* Whether {name}.mp4 is there for run r's existence check when r runs alone.
HasIntermediateAlone(r) ==
    IntermediateOf(r) \in atStart[r] \/ WroteOutput(r, "DownloadVideo")

\* Run r is where it would be alone, with the artifacts it would have alone,
\* and has not touched a file of another run.
AsAlone(r) ==
    /\ DOMAIN files \cap ArtifactsOf(r) = OwnArtifacts(r)
    /\ \A p \in DOMAIN files \cap ArtifactsOf(r) : files[p].by \in {0, r}
    /\ result[r].tag = "FileNotFound" => ~HasIntermediateAlone(r)
    /\ (VideoOnly(r) /\ pc[r] \in {"convert", "remove", "return"}) => HasIntermediateAlone(r)
    /\ result[r] # CommandError("Failed to delete file: No such file or directory (os error 2)")
    /\ \A q \in Others(r) :
          /\ deleted[r] \cap ArtifactsOf(q) = {}
          /\ \A i \in 1..Len(calls[r]) :
                /\ calls[r][i].output \notin ArtifactsOf(q)
                /\ calls[r][i].input \notin ArtifactsOf(q)

\* C12 as stated: of concurrent runs whose (outputDirectory, baseName)
\* combinations differ, each ends as it would alone with the artifacts it
\* would have alone, and none deletes, consumes or overwrites a file of
\* another.
C12_AsStated ==
    \A r \in Runs :
        (/\ Started(r)
         /\ \A q \in Others(r) :
               <<args[q].output_dir, args[q].name>> # <<args[r].output_dir, args[r].name>>)
            => AsAlone(r)

\* C12 amended: the same of concurrent runs whose artifact paths
\* ({name}.mp4 and {name}_complete.mp4 of a VideoOnly run, {name}.mp3 of an
\* AudioOnly run) have no file in common; different (outputDirectory, baseName) combinations are
\* not enough, since {name}_complete.mp4 of one request is {name}.mp4 of the
\* request named {name}_complete.
C12_DisjointRunsDoNotInterfere ==
    \A r \in Runs :
        (/\ Started(r)
         /\ \A q \in Others(r) : ArtifactsOf(q) \cap ArtifactsOf(r) = {})
            => AsAlone(r)

C12_Witness ==
    \E r, q \in Runs :
        /\ r # q /\ VideoOnly(r) /\ VideoOnly(q)
        /\ args[r].output_dir = args[q].output_dir
        /\ ArtifactsOf(q) \cap ArtifactsOf(r) = {}
        /\ Completed(r) /\ Completed(q)
        /\ WroteOutput(r, "NormalizeVideo") /\ WroteOutput(q, "NormalizeVideo")
        /\ OnDisk(FinalVideoOf(r)) /\ OnDisk(FinalVideoOf(q))

----------------------------------------------------------------------------
(* C13 *)

\* The order of the steps of a run.
StepOrder == <<"create_dir", "download", "exists", "convert", "remove", "return">>

Rank(p) == CHOOSE i \in 1..Len(StepOrder) : StepOrder[i] = p

\* The step that follows step p in a run of the given format.
Successor(format, p) ==
    IF format = "Mp3" /\ p = "download" THEN "return" ELSE StepOrder[Rank(p) + 1]

\* The stage a step invokes, "" for a step that invokes none.
StageOf(format, p) ==
    IF p = "download" THEN (IF format = "Mp4" THEN "DownloadVideo" ELSE "DownloadAudio")
    ELSE IF p = "convert" THEN "NormalizeVideo"
    ELSE ""

\* One step of run r: it is taken from a step main has not returned from,
\* it either completes that step and moves to its successor or fails and
\* ends the run there, and it invokes the stage of that step and no other.
OrderedStep(r) ==
    LET fmt == args[r].format IN
    <<pc[r], result[r], calls[r], deleted[r]>>' # <<pc[r], result[r], calls[r], deleted[r]>> =>
        /\ Running(r) /\ pc[r] # "return"
        /\ \/ /\ pc'[r] = Successor(fmt, pc[r])
              /\ result'[r] = IF pc'[r] = "return" THEN Ok ELSE NoResult
           \/ /\ pc'[r] = pc[r]
              /\ IsErr(result'[r])
        /\ IF StageOf(fmt, pc[r]) # ""
           THEN /\ Len(calls'[r]) = Len(calls[r]) + 1
                /\ SubSeq(calls'[r], 1, Len(calls[r])) = calls[r]
                /\ calls'[r][Len(calls'[r])].op = StageOf(fmt, pc[r])
           ELSE calls'[r] = calls[r]
        /\ deleted'[r] # deleted[r] => pc[r] = "remove" /\ deleted[r] = {}

\* C13: within one run the steps are taken in the order directory
\* creation, download, existence check, NormalizeVideo, deletion, each
\* starting from the completed one before it; every stage is invoked at most
\* once, none is revisited, and after a failure nothing more is done.
C13_StrictStageOrder ==
    /\ [][\A r \in Runs : Started(r) => OrderedStep(r)]_vars
    /\ [](\A r \in Runs :
            /\ \A i, j \in 1..Len(calls[r]) : calls[r][i].op = calls[r][j].op => i = j
            /\ Len(calls[r]) = 2 =>
                  calls[r][1].op = "DownloadVideo" /\ calls[r][2].op = "NormalizeVideo"
            /\ Len(calls[r]) <= 2
            /\ Cardinality(deleted[r]) <= 1)

C13_Witness ==
    \E r \in Runs :
        /\ pc[r] = "return"
        /\ Len(calls[r]) = 2
        /\ calls[r][1].op = "DownloadVideo" /\ calls[r][2].op = "NormalizeVideo"
        /\ Cardinality(deleted[r]) = 1

----------------------------------------------------------------------------
(* C14 *)

\* The step at which an aborted run failed.
FailedStage(r) == pc[r]

\* The kind of failure of an aborted run.
FailureKind(r) ==
    IF pc[r] = "exists" THEN "MissingArtifact"
    ELSE IF pc[r] = "remove" THEN "CleanupError"
    ELSE IF pc[r] = "create_dir" THEN "DirectoryError"
    ELSE IF calls[r][Len(calls[r])].st.err # "" THEN "LaunchError"
    ELSE "ExecutionError"

\* A run aborted by a stage, by the existence check or by the cleanup.
AbortedByStage(r) == Aborted(r) /\ pc[r] # "create_dir"

\* C14: the error value a run aborted by a stage returns identifies the
\* stage that failed and the kind of the failure (LaunchError,
\* ExecutionError, MissingArtifact, CleanupError): two aborted runs that
\* returned the same error value failed at the same stage in the same way.
C14_ErrorIdentifiesStageAndKind ==
    \A r, q \in Runs :
        (AbortedByStage(r) /\ AbortedByStage(q) /\ result[r] = result[q]) =>
            /\ FailedStage(r) = FailedStage(q)
            /\ FailureKind(r) = FailureKind(q)

----------------------------------------------------------------------------
(* The library (src/src/lib.rs) and its tests (src/tests/test_download.rs): *)
(* a caller process calls one of the three public functions.               *)

\* lib.rs 38-45, 74-81, 110-117: .status().map_err(..)? and the test of
\* status.success(); `failed` is the message of the non-zero exit.
LibResult(st, failed) ==
    IF st.err # "" THEN CommandError(st.err)
    ELSE IF st.success THEN Ok
    ELSE CommandError(failed)

\* One call of a library function by caller r: the command is run once and
\* the function returns; on Ok the caller goes on to `next` (or is done, with
\* Ok, when `next` is "returned"), on Err the caller returns the error (the
\* `?` of the tests).
LibCall(r, op, prog, url, input, output, failed, next) ==
    \E st \in Statuses, untouched \in BOOLEAN :
        LET ret == LibResult(st, failed)
            wrote == ~untouched
        IN
        /\ st.err # "" => ~wrote
        /\ calls' = [calls EXCEPT ![r] =
                        Append(@, Call(op, prog, url, input, output, st, ret, wrote))]
        /\ files' = IF wrote THEN Written(output, r, op) ELSE files
        /\ IF ret = Ok
           THEN /\ pc' = [pc EXCEPT ![r] = next]
                /\ result' = [result EXCEPT ![r] = IF next = "returned" THEN Ok ELSE @]
           ELSE result' = [result EXCEPT ![r] = ret] /\ UNCHANGED pc
        /\ UNCHANGED <<args, dirs, deleted, atStart>>

\* lib.rs 26-46, called as in test_download.rs 24
lib_download_youtube_video(r) ==
    /\ Running(r) /\ pc[r] = "lib_video"
    /\ LibCall(r, "DownloadVideo", "yt-dlp", args[r].url, "", video_path(args[r]),
               "Command failed", "assert")

\* lib.rs 93-118, called as in test_download.rs 12
lib_download_youtube_audio(r) ==
    /\ Running(r) /\ pc[r] = "lib_audio"
    /\ LibCall(r, "DownloadAudio", "yt-dlp", args[r].url, "", mp3_path(args[r]),
               "Command failed", "assert")

\* lib.rs 58-82
lib_convert_to_quicktime_compatible_mp4(r) ==
    /\ Running(r) /\ pc[r] = "lib_convert"
    /\ LibCall(r, "NormalizeVideo", "ffmpeg", "", video_path(args[r]),
               compatible_mp4_path(args[r]),
               "Re-encoding to QuickTime-compatible format failed", "returned")

\* The output path of the function caller r called.
LibOutput(r) ==
    IF calls[r] = << >> THEN "" ELSE calls[r][Len(calls[r])].output

AssertionFailed == [tag |-> "Panic", msg |-> "assertion failed"]

\* test_download.rs 13-16, 25-28: assert!(Path::new(output_path).exists());
\* remove_file(output_path).ok(); Ok(())
TestAssert(r) ==
    /\ Running(r) /\ pc[r] = "assert"
    /\ IF PathExists(LibOutput(r))
       THEN /\ \/ /\ files' = Removed(LibOutput(r))
                  /\ deleted' = [deleted EXCEPT ![r] = @ \cup {LibOutput(r)}]
               \/ UNCHANGED <<files, deleted>>
            /\ pc' = [pc EXCEPT ![r] = "passed"]
            /\ result' = [result EXCEPT ![r] = Ok]
       ELSE /\ result' = [result EXCEPT ![r] = AssertionFailed]
            /\ UNCHANGED <<pc, files, deleted>>
    /\ UNCHANGED <<args, dirs, calls, atStart>>

LibStep(r) ==
    \/ lib_download_youtube_video(r)
    \/ lib_download_youtube_audio(r)
    \/ lib_convert_to_quicktime_compatible_mp4(r)
    \/ TestAssert(r)

NextLib ==
    \/ \E r \in Runs : Step(r)
    \/ \E r \in Runs : LibStep(r)

\* test_download.rs 9-10, 21-22
TestUrl == "https://www.youtube.com/watch?v=dQw4w9WgXcQ"
TestVideo == [url |-> TestUrl, name |-> "test_video", output_dir |-> "Processed",
              format |-> "Mp4"]
TestAudio == [url |-> TestUrl, name |-> "test_audio", output_dir |-> "Processed",
              format |-> "Mp3"]

\* The callers: where each starts, and with what.
LibEntries == {<<"lib_video", TestVideo>>, <<"lib_audio", TestAudio>>,
               <<"lib_convert", TestVideo>>}

\* Either a run of main, or a caller of the library as process 1.
InitLib ==
    \/ Init
    \/ /\ \E entry \in LibEntries :
             /\ pc = [r \in Runs |-> IF r = 1 THEN entry[1] ELSE "idle"]
             /\ args = [r \in Runs |-> IF r = 1 THEN entry[2] ELSE DefaultArgs]
             /\ \E old \in SUBSET ArtifactPaths(entry[2]) :
                   /\ files = [p \in old |-> PreExisting]
                   /\ atStart = [r \in Runs |-> IF r = 1 THEN old ELSE {}]
                   /\ \/ dirs = Ancestors(processed_dir(entry[2]))
                      \/ old = {} /\ dirs = {}
       /\ result = [r \in Runs |-> NoResult]
       /\ calls = [r \in Runs |-> << >>]
       /\ deleted = [r \in Runs |-> {}]

SpecLib == InitLib /\ [][NextLib]_vars

----------------------------------------------------------------------------
(* C15 *)

\* Caller r is back from download_youtube_video or download_youtube_audio
\* with Ok, before it does anything else.
DownloadReturnedOk(r) ==
    /\ Running(r) /\ pc[r] = "assert"
    /\ calls[r][Len(calls[r])].op \in {"DownloadVideo", "DownloadAudio"}
    /\ calls[r][Len(calls[r])].ret = Ok

\* C15: whenever download_youtube_audio or download_youtube_video has
\* returned Ok for an output path, a file exists at that path (the
\* assertion of the two tests never fails).
C15_OkImpliesFileExists ==
    \A r \in Runs :
        /\ DownloadReturnedOk(r) => OnDisk(LibOutput(r))
        /\ result[r] # AssertionFailed

----------------------------------------------------------------------------
(* C16 *)

\* C16: the paths a run uses are {dir}/{name}.mp4, {dir}/{name}_complete.mp4
\* and {dir}/{name}.mp3 of its output directory and name (for out and clip:
\* out/clip.mp4, out/clip_complete.mp4, out/clip.mp3), the same in every run
\* of the same request; and the path given to DownloadVideo is the one
\* checked for existence, the input of NormalizeVideo and the one deleted.
C16_PathsFollowConvention ==
    /\ [](\A r \in Runs : \A i \in 1..Len(calls[r]) :
            LET c == calls[r][i] IN
            /\ c.op = "DownloadVideo" => c.output = IntermediateOf(r)
            /\ c.op = "DownloadAudio" => c.output = FinalAudioOf(r)
            /\ c.op = "NormalizeVideo" =>
                  /\ c.input = IntermediateOf(r) /\ c.output = FinalVideoOf(r)
                  /\ c.input = calls[r][1].output
            /\ (args[r].output_dir = "out" /\ args[r].name = "clip") =>
                  /\ c.op = "DownloadVideo" => c.output = "out/clip.mp4"
                  /\ c.op = "NormalizeVideo" => c.output = "out/clip_complete.mp4"
                  /\ c.op = "DownloadAudio" => c.output = "out/clip.mp3"
            /\ \A q \in Runs : \A j \in 1..Len(calls[q]) :
                  (/\ args[q].output_dir = args[r].output_dir
                   /\ args[q].name = args[r].name
                   /\ calls[q][j].op = c.op) =>
                      calls[q][j].output = c.output /\ calls[q][j].input = c.input)
    /\ [](\A r \in Runs :
            IF calls[r] = << >> THEN deleted[r] = {} /\ result[r].tag # "FileNotFound"
            ELSE /\ deleted[r] \subseteq {calls[r][1].output}
                 /\ result[r].tag = "FileNotFound" => result[r].msg = calls[r][1].output)
    /\ [][\A r \in Runs :
            (pc[r] = "exists" /\ pc'[r] = "convert") =>
                calls[r] # << >> /\ OnDisk(calls[r][1].output)]_vars

C16_Witness ==
    \E r, q \in Runs :
        /\ r # q /\ args[r] = args[q]
        /\ args[r].output_dir = "out" /\ args[r].name = "clip"
        /\ Completed(r) /\ Completed(q)
        /\ deleted[r] = {"out/clip.mp4"} /\ deleted[q] = {"out/clip.mp4"}
        /\ calls[q][2].output = "out/clip_complete.mp4"


----------------------------------------------------------------------------
(* C17 *)

\* Every statement of main returns: a run that can take a step eventually
\* takes one (each external command, once started, exits).
SpecFair == Spec /\ \A r \in Runs : WF_vars(Step(r))

\* The very next step of run r can end it with an error.
AbortEnabled(r) == ENABLED (Step(r) /\ Aborted(r)')

\* The existence check of run r passes and hands over to the transcode.
CheckPasses(r) == ENABLED (Step(r) /\ pc'[r] = "convert")

\* Nothing of run r changes in a step.
Halted(r) == UNCHANGED <<pc[r], result[r], calls[r], deleted[r], args[r]>>

\* C17: every run that started eventually ends, Completed or Aborted and
\* never both, and stays so; after Aborted the run starts no command,
\* deletes nothing and (no other run being active) the filesystem is left
\* as it is; and from each of directory creation, download, transcode and
\* cleanup the next step can abort the run, as can the existence check
\* unless it passes to the transcode.
C17_TerminatesAndAbortedAbsorbing ==
    /\ \A r \in Runs : Started(r) ~> (Completed(r) \/ Aborted(r))
    /\ [](\A r \in Runs : ~(Completed(r) /\ Aborted(r)))
    /\ [][\A r \in Runs : Ended(r) => Halted(r)]_vars
    /\ [][\A r \in Runs :
            (Aborted(r) /\ \A q \in Runs : q # r => ~Running(q)) =>
                UNCHANGED <<files, dirs>>]_vars
    /\ [](\A r \in Runs :
            /\ (Running(r) /\ pc[r] \in {"create_dir", "download", "convert", "remove"})
                  => AbortEnabled(r)
            /\ (Running(r) /\ pc[r] = "exists")
                  => (AbortEnabled(r) \/ CheckPasses(r)))

\* A run aborted by its cleanup, the last point where it can abort.
C17_Witness ==
    \E r \in Runs :
        /\ Aborted(r) /\ pc[r] = "remove"
        /\ Len(calls[r]) = 2 /\ calls[r][2].ret = Ok


----------------------------------------------------------------------------
(* C18 *)

\* The statements that are a call of a stage function, in main and in the
\* callers of the library.
StageCalls == {"download", "convert", "lib_video", "lib_audio", "lib_convert"}

\* The command could be launched and exited with a success status.
LaunchedAndSucceeded(c) == c.st.err = "" /\ c.st.success

\* C18: a call of download_youtube_video, download_youtube_audio or
\* convert_to_quicktime_compatible_mp4 starts exactly one command and
\* returns Ok if and only if the command was launched and exited with a
\* success status; a launch failure and a non-zero exit each return an
\* error, which the caller receives; no command is started twice in a run.
C18_OneCommandOkIffSuccess ==
    /\ [][\A r \in Runs :
            (Running(r) /\ pc[r] \in StageCalls /\ ~Halted(r)) =>
                LET c == calls'[r][Len(calls'[r])] IN
                /\ Len(calls'[r]) = Len(calls[r]) + 1
                /\ SubSeq(calls'[r], 1, Len(calls[r])) = calls[r]
                /\ c.ret = Ok <=> LaunchedAndSucceeded(c)
                /\ c.st.err # "" => IsErr(c.ret)
                /\ (c.st.err = "" /\ ~c.st.success) => IsErr(c.ret)
                /\ IsErr(c.ret) => result'[r] = c.ret
                /\ c.ret = Ok => ~IsErr(result'[r]) /\ pc'[r] # pc[r]]_vars
    /\ [][\A r \in Runs :
            (~(Running(r) /\ pc[r] \in StageCalls)) => calls'[r] = calls[r]]_vars
    /\ [](\A r \in Runs : \A i, j \in 1..Len(calls[r]) :
            /\ calls[r][i].op = calls[r][j].op => i = j
            /\ IsErr(calls[r][i].ret) => i = Len(calls[r]))

\* The library's transcode returned the error of a non-zero exit after its
\* single command.
C18_Witness ==
    \E r \in Runs :
        /\ pc[r] = "lib_convert" /\ Len(calls[r]) = 1
        /\ calls[r][1].st.err = "" /\ ~calls[r][1].st.success
        /\ result[r] = CommandError("Re-encoding to QuickTime-compatible format failed")


----------------------------------------------------------------------------
(* C19 *)

\* A VideoOnly run that found {dir}/{name}.mp4 already there when it
\* started, and whose DownloadVideo reported success without writing it.
StaleDownload(r) ==
    /\ VideoOnly(r) /\ IntermediateOf(r) \in atStart[r]
    /\ calls[r] # << >>
    /\ calls[r][1].op = "DownloadVideo"
    /\ calls[r][1].ret = Ok /\ ~calls[r][1].wrote

\* ... and whose NormalizeVideo then reported success.
StaleNormalized(r) ==
    /\ StaleDownload(r) /\ Len(calls[r]) = 2
    /\ calls[r][2].op = "NormalizeVideo" /\ calls[r][2].ret = Ok

\* C19 as stated: in such a run the existence check does not fail,
\* NormalizeVideo is invoked on the stale file, and once NormalizeVideo
\* has succeeded and the run has ended the file is deleted.
C19_AsStated ==
    \A r \in Runs :
        /\ StaleDownload(r) =>
              /\ result[r].tag # "FileNotFound"
              /\ Len(calls[r]) >= 2 => calls[r][2].input = IntermediateOf(r)
        /\ (StaleNormalized(r) /\ Ended(r)) =>
              IntermediateOf(r) \in deleted[r] /\ ~OnDisk(IntermediateOf(r))

\* C19 amended: in such a run the existence check passes (it cannot abort
\* the run), the command that follows is NormalizeVideo with the stale file,
\* as it was before the run, as input, and after NormalizeVideo succeeded
\* the run's next step is the deletion of that file: the run ends Completed
\* with the file deleted, or, when remove_file fails, Aborted by the
\* deletion error with the stale file still there.
C19_StaleFilePassesCheck ==
    /\ [](\A r \in Runs :
            /\ StaleDownload(r) =>
                  /\ result[r].tag # "FileNotFound"
                  /\ (Running(r) /\ pc[r] = "exists") =>
                        CheckPasses(r) /\ ~AbortEnabled(r)
                  /\ Len(calls[r]) >= 2 =>
                        /\ calls[r][2].op = "NormalizeVideo"
                        /\ calls[r][2].prog = "ffmpeg"
                        /\ calls[r][2].input = IntermediateOf(r)
            /\ (StaleNormalized(r) /\ ~Ended(r)) =>
                  pc[r] = "remove" /\ OnDisk(IntermediateOf(r))
            /\ (StaleNormalized(r) /\ Completed(r)) =>
                  deleted[r] = {IntermediateOf(r)} /\ ~OnDisk(IntermediateOf(r))
            /\ (StaleNormalized(r) /\ Aborted(r)) =>
                  /\ pc[r] = "remove" /\ deleted[r] = {}
                  /\ files[IntermediateOf(r)] = PreExisting
                  /\ SubSeq(result[r].msg, 1, Len(DeleteFailedPrefix)) = DeleteFailedPrefix)
    /\ [][\A r \in Runs :
            (StaleDownload(r) /\ Running(r) /\ pc[r] = "convert" /\ ~Halted(r)) =>
                /\ files[IntermediateOf(r)] = PreExisting
                /\ Len(calls'[r]) = 2]_vars

\* The stale file went through the whole run and was deleted.
C19_Witness ==
    \E r \in Runs :
        /\ StaleNormalized(r) /\ Completed(r)
        /\ deleted[r] = {IntermediateOf(r)}
        /\ ~OnDisk(IntermediateOf(r))


----------------------------------------------------------------------------
(* C20 *)

\* Run r is about to call download_youtube_audio.
BeforeDownloadAudio(r) == AudioOnly(r) /\ Running(r) /\ pc[r] = "download"

\* The next step of run r can complete it with {dir}/{name}.mp3 on disk.
CanCompleteWithFile(r) ==
    ENABLED (Step(r) /\ Completed(r)' /\ OnDisk(FinalAudioOf(r))')

\* The next step of run r can complete it with no {dir}/{name}.mp3 on disk.
CanCompleteWithoutFile(r) ==
    ENABLED (Step(r) /\ Completed(r)' /\ ~OnDisk(FinalAudioOf(r))')

\* C20: an AudioOnly run that has ended is Completed exactly when
\* DownloadAudio reported success, and once DownloadAudio was called the
\* run's result is what DownloadAudio returned (a run that never called it
\* was aborted by the directory creation); {dir}/{name}.mp3 is not checked:
\* the download step can complete the run with the file on disk and, when
\* no such file is there beforehand, also without it.
C20_AudioOutcomeIsDownloadOutcome ==
    \A r \in Runs :
        /\ (AudioOnly(r) /\ Ended(r)) =>
              /\ Completed(r) <=> ReportedSuccess(r, "DownloadAudio")
              /\ Aborted(r) <=> ~ReportedSuccess(r, "DownloadAudio")
              /\ Len(calls[r]) = 1 => result[r] = calls[r][1].ret
              /\ Len(calls[r]) = 0 => Aborted(r) /\ pc[r] = "create_dir"
              /\ result[r].tag # "FileNotFound"
        /\ (AudioOnly(r) /\ ~Ended(r)) => calls[r] = << >>
        /\ BeforeDownloadAudio(r) =>
              /\ CanCompleteWithFile(r)
              /\ ~OnDisk(FinalAudioOf(r)) => CanCompleteWithoutFile(r)

\* An AudioOnly run Completed with no {dir}/{name}.mp3 on disk.
C20_Witness ==
    \E r \in Runs :
        /\ AudioOnly(r) /\ Completed(r)
        /\ Len(calls[r]) = 1 /\ calls[r][1].ret = Ok /\ ~calls[r][1].wrote
        /\ ~OnDisk(FinalAudioOf(r))

====
